---- MODULE Spec2Model ----
(***************************************************************************)
(* A model of emu_test_runner: the execution phase (a rayon pool running   *)
(* the caller's emulator callback inside catch_unwind, with the panic      *)
(* correlation buffer of panics.rs), the classification phase (lib.rs      *)
(* process_results, working on the four generation directories of          *)
(* setup.rs and the snapshot directory) and the report (processing.rs      *)
(* TestReport::new).                                                        *)
(***************************************************************************)
EXTENDS Integers, Sequences, FiniteSets, TLC

VARIABLES
    runner,         \* the EmuTestRunner in use: [exists, pool]
    pools,          \* number of thread pools built so far (ThreadIds are never reused)
    pc,             \* where run_tests is: "idle", "exec", "classify"; "panicked" once a panic left it
    runs,           \* number of run_tests calls started
    fs,             \* the output directory: [old, new, changed, failures], each [exists, files]
    snapshots,      \* the snapshot directory: path -> file
    panic_hook,     \* the process-wide panic hook: "default" or "custom"
    hook,           \* the hook saved by run_in_custom_handler (its local `hook`)
    PANIC_BUFFER,   \* panics.rs PANIC_BUFFER: ThreadId -> sequence of messages
    tests,          \* the candidates the par_bridge iterator has not handed out yet
    wk,             \* per pool worker: what it is doing
    frame_results,  \* run_tests' frame_results: the collected Results of the execution phase
    todo,           \* indices of frame_results not yet taken by into_par_iter
    test_results,   \* per index of frame_results, the TestOutputs produced so far
    report,         \* the TestReport handed to handle_complete
    formatter,      \* the calls the formatter has received in this run_tests call
    ran,            \* history: what reading the ROM and the callback did, per candidate of this run
    classified,     \* history: one record per frame classified in this run_tests call
    last,           \* history: `classified` of the run_tests call before this one
    timed_out,      \* options.timeout has passed since this run_tests call started
    other           \* run_in_custom_handler called on another thread of the process: [pc, hook]

vars == <<runner, pools, pc, runs, fs, snapshots, panic_hook, hook, PANIC_BUFFER, tests,
          wk, frame_results, todo, test_results, report, formatter, ran, classified, last,
          timed_out, other>>

-----------------------------------------------------------------------------
(* Bounds of the model *)

\* run_tests calls in one behaviour
MaxRuns == 2

\* length of the TestOutput lists given to TestReport::new in SpecReport
MaxOutputs == 3

-----------------------------------------------------------------------------
(* Values *)

\* Option<T>: None is the empty sequence, Some(x) the sequence <<x>>
None == <<>>

Some(x) == <<x>>

\* options.expected_frame_width * options.expected_frame_height * 4 (Rgba<u8>),
\* scaled down to one pixel
FrameBytes == 1 * 1 * 4

\* options.put_sequence_tests_in_subfolder (its default)
put_sequence_tests_in_subfolder == TRUE

\* options.rs 17, 30: the suite timeout, configured by default
timeout == Some("15s")

\* the pool's workers (options.num_threads of them)
Workers == {"w1", "w2"}

\* inputs.rs TestCandidate; rom_path is left out, reading it is ReadRom's choice
TestCandidate(id, is_sequence_test) == [rom_id |-> id, is_sequence_test |-> is_sequence_test]

Candidates == {TestCandidate("a", FALSE), TestCandidate("b", TRUE)}

\* pixel buffers: two of the expected size that differ by 1 in one channel of one
\* pixel, one too short, one too long
FrameX == <<0, 0, 0, 255>>

FrameY == <<0, 0, 1, 255>>

FrameShort == <<0, 0, 0>>

FrameLong == <<0, 0, 0, 255, 9>>

\* outputs.rs FrameOutput
FrameOutput(tag, frame) == [tag |-> tag, frame |-> frame]

-----------------------------------------------------------------------------
(* setup.rs: paths *)

rom_id_to_png(rom_id, suffix) ==
    IF suffix # None
        THEN rom_id \o "_" \o suffix[1] \o ".png"
        ELSE rom_id \o ".png"

\* one path for every frame of every candidate
path_suffix_flat(candidate, tag) == "frame.png"

\* lib.rs 142-148: the path below a generation directory
path_suffix(candidate, tag) ==
    LET result_name == rom_id_to_png(candidate.rom_id, tag)
    IN  IF candidate.is_sequence_test /\ put_sequence_tests_in_subfolder
            THEN candidate.rom_id \o "/" \o result_name
            ELSE result_name

-----------------------------------------------------------------------------
(* Files and directories *)

\* a PNG that decodes to `bytes`
Png(bytes) == [ok |-> TRUE, bytes |-> bytes]

\* a file image::open fails on
Corrupt == [ok |-> FALSE, bytes |-> <<>>]

NoDir == [exists |-> FALSE, files |-> <<>>]

EmptyDir == [exists |-> TRUE, files |-> <<>>]

HasFile(files, p) == p \in DOMAIN files

PutFile(files, p, f) == [q \in DOMAIN files \cup {p} |-> IF q = p THEN f ELSE files[q]]

-----------------------------------------------------------------------------
(* outputs.rs: the outcome of one frame, and the results of the two phases *)

TestOutputUnchanged(newly_added) == [kind |-> "Unchanged", newly_added |-> newly_added]

TestOutputChanged(changed_path, old_path) ==
    [kind |-> "Changed", changed_path |-> changed_path, old_path |-> old_path]

TestOutputFailure(failure_path, snapshot_path, is_new) ==
    [kind |-> "Failure", failure_path |-> failure_path, snapshot_path |-> snapshot_path,
     is_new |-> is_new]

TestOutputPassed(is_new) == [kind |-> "Passed", is_new |-> is_new]

TestOutputError(reason) == [kind |-> "Error", reason |-> reason]

\* EmuContext<TestOutputContext<TestOutputType>>; time_taken is Some or None only
TestOutput(candidate, time_taken, output) ==
    [candidate |-> candidate, time_taken |-> time_taken, output |-> output]

\* Ok(RunnerOutput)
RunnerOutput(candidate, frame_output) ==
    [ok |-> TRUE, candidate |-> candidate, frame_output |-> frame_output]

\* Err(RunnerError)
RunnerError(candidate, context) ==
    [ok |-> FALSE, candidate |-> candidate, context |-> context]

\* processing.rs 98-107: From<RunnerError> for TestOutput
ErrorToTestOutput(e) == TestOutput(e.candidate, "None", TestOutputError(e.context))

-----------------------------------------------------------------------------
(* lib.rs 131-202: the classification of one frame *)

\* ImageBuffer::from_raw: Some when the buffer holds at least width*height*4 bytes
from_raw(buf) == IF Len(buf) >= FrameBytes THEN Some(buf) ELSE None

\* what ImageBuffer::save encodes: the pixels of the image, the first
\* width*height*4 bytes of the buffer
inner_pixels(buf) == SubSeq(buf, 1, FrameBytes)

\* image_frame.as_bytes(): through Deref, the whole buffer
as_bytes(buf) == buf

\* a comparison that lets each channel be off by one
old_equals_data_within_one(old, p, new_data) ==
    IF HasFile(old.files, p)
        THEN /\ old.files[p].ok
             /\ Len(old.files[p].bytes) = Len(new_data)
             /\ \A i \in 1..Len(new_data) :
                    old.files[p].bytes[i] - new_data[i] \in {-1, 0, 1}
        ELSE FALSE

\* a comparison that takes an undecodable `old` file to be equal
old_equals_data_undecodable_is_equal(old, p, new_data) ==
    IF HasFile(old.files, p)
        THEN IF old.files[p].ok THEN old.files[p].bytes = new_data ELSE TRUE
        ELSE FALSE

\* a comparison that takes a missing `old` file to be equal
old_equals_data_missing_is_equal(old, p, new_data) ==
    IF HasFile(old.files, p)
        THEN IF old.files[p].ok THEN old.files[p].bytes = new_data ELSE FALSE
        ELSE TRUE

\* lib.rs 157-165: old_equals_data
old_equals_data(old, p, new_data) ==
    IF HasFile(old.files, p)
        THEN IF old.files[p].ok THEN old.files[p].bytes = new_data ELSE FALSE
        ELSE FALSE

\* a directory creation that leaves an empty directory, whatever was there
create_dir_emptied(dir) == [exists |-> TRUE, files |-> <<>>]

\* std::fs::create_dir_all, its result dropped
create_dir_all(dir) == [dir EXCEPT !.exists = TRUE]

\* image_frame.save(&new_path): io.save is what the disk lets happen;
\* "partial" is a failed write that leaves an undecodable file behind
Save(dir, p, buf, io) ==
    CASE io.save = "ok"      -> [dir EXCEPT !.files = PutFile(@, p, Png(inner_pixels(buf)))]
      [] io.save = "partial" -> [dir EXCEPT !.files = PutFile(@, p, Corrupt)]
      [] OTHER               -> dir

\* a copy that creates the destination's parent and writes nothing
CopyNothing(from, to, p) == [exists |-> TRUE, files |-> to.files]

\* std::fs::copy(&new_path, &to): creates the destination's parent first (lib.rs 173, 190)
Copy(from, to, p) ==
    [exists |-> TRUE, files |-> PutFile(to.files, p, from.files[p])]

\* the environment's part in one classification
IoChoices ==
    { [save |-> "ok", copy |-> "ok"], [save |-> "fail", copy |-> "ok"],
      [save |-> "partial", copy |-> "ok"], [save |-> "ok", copy |-> "fail"] }

IoOk == [save |-> "ok", copy |-> "ok"]

\* lib.rs 131-202: `lambda`.  Gives the directories afterwards and Ok(output) or
\* Err(reason) as [ok, output] / [ok, reason].
Lambda(d, snaps, candidate, frame, io) ==
    IF from_raw(frame.frame) = None
    THEN [fs |-> d, ok |-> FALSE, reason |-> "Failed to turn framebuffer to dynamic image"]
    ELSE
    LET image_frame == from_raw(frame.frame)[1]
        p  == path_suffix(candidate, frame.tag)
        d1 == [d EXCEPT !.new = create_dir_all(@), !.old = create_dir_all(@)]
        d2 == [d1 EXCEPT !.new = Save(@, p, image_frame, io)]
    IN
    IF io.save # "ok"
    THEN [fs |-> d2, ok |-> FALSE, reason |-> "save"]
    ELSE
    IF HasFile(snaps, p)
    THEN
        IF ~snaps[p].ok
        THEN [fs |-> d2, ok |-> FALSE, reason |-> "open snapshot"]
        ELSE
        LET snapshot_data == snaps[p].bytes
        IN  IF snapshot_data # as_bytes(image_frame)
            THEN IF io.copy # "ok"
                 THEN [fs |-> [d2 EXCEPT !.failures = create_dir_all(@)],
                       ok |-> FALSE, reason |-> "copy"]
                 ELSE [fs |-> [d2 EXCEPT !.failures = Copy(d2.new, @, p)],
                       ok |-> TRUE,
                       output |-> TestOutputFailure(p, p,
                                      old_equals_data(d2.old, p, snapshot_data))]
            ELSE [fs |-> d2, ok |-> TRUE,
                  output |-> TestOutputPassed(~old_equals_data(d2.old, p, snapshot_data))]
    ELSE
        IF ~old_equals_data(d2.old, p, as_bytes(image_frame))
        THEN IF io.copy # "ok"
             THEN [fs |-> [d2 EXCEPT !.changed = create_dir_all(@)],
                   ok |-> FALSE, reason |-> "copy"]
             ELSE [fs |-> [d2 EXCEPT !.changed = Copy(d2.new, @, p)],
                   ok |-> TRUE, output |-> TestOutputChanged(p, p)]
        ELSE [fs |-> d2, ok |-> TRUE,
              output |-> TestOutputUnchanged(~HasFile(d2.old.files, p))]

\* lib.rs 208-223: the TestOutput of one frame, Error when the lambda failed
FrameToTestOutput(candidate, r) ==
    IF r.ok
        THEN TestOutput(candidate, "Some", r.output)
        ELSE TestOutput(candidate, "Some", TestOutputError(r.reason))

-----------------------------------------------------------------------------
(* processing.rs 118-177: TestReport::new *)

\* BucketOf with the Failure arm pushing to `passed`
BucketOfFailureToPassed(o) ==
    CASE o.output.kind = "Unchanged" -> "unchanged"
      [] o.output.kind = "Changed"   -> "changed"
      [] o.output.kind = "Failure"   -> "passed"
      [] o.output.kind = "Passed"    -> "passed"
      [] o.output.kind = "Error"     -> "errors"

\* the bucket an output is pushed to (the match of lines 127-165)
BucketOf(o) ==
    CASE o.output.kind = "Unchanged" -> "unchanged"
      [] o.output.kind = "Changed"   -> "changed"
      [] o.output.kind = "Failure"   -> "fails"
      [] o.output.kind = "Passed"    -> "passed"
      [] o.output.kind = "Error"     -> "errors"

Buckets == {"passed", "unchanged", "changed", "fails", "errors"}

\* what is pushed (lines 128-164): the candidate with a TestOutputContext around the
\* variant's payload, or, for an Error, with the TestOutputError alone
BucketEntry(o) ==
    IF o.output.kind = "Error"
        THEN [candidate |-> o.candidate, context |-> o.output]
        ELSE [candidate |-> o.candidate,
              context |-> [time_taken |-> o.time_taken, output |-> o.output]]

RECURSIVE Partition(_, _)
\* the for loop of lines 122-166 over test_outputs, pushing to the buckets b
Partition(test_outputs, b) ==
    IF test_outputs = <<>>
        THEN b
        ELSE LET o == Head(test_outputs)
             IN  Partition(Tail(test_outputs),
                           [b EXCEPT ![BucketOf(o)] = Append(@, BucketEntry(o))])

TestReportNew(test_outputs) ==
    LET b == Partition(test_outputs, [k \in Buckets |-> <<>>])
    IN  [test_outputs |-> test_outputs,
         passed |-> b["passed"], unchanged |-> b["unchanged"], changed |-> b["changed"],
         fails |-> b["fails"], errors |-> b["errors"]]

-----------------------------------------------------------------------------
(* setup.rs 16-36: setup_output_directory *)

\* a setup that wipes `changed` and `failures` and leaves `old` and `new` as they are
setup_without_rotation(d) ==
    [d EXCEPT !.new = [exists |-> TRUE, files |-> @.files],
              !.changed = [exists |-> TRUE, files |-> <<>>],
              !.failures = [exists |-> TRUE, files |-> <<>>]]

setup_output_directory(d) ==
    LET d1 == [d EXCEPT !.old = NoDir]                            \* remove_dir_all(&old_dir)
        d2 == IF d1.new.exists                                    \* rename(&new_dir, &old_dir)
                  THEN [d1 EXCEPT !.old = d1.new, !.new = NoDir]
                  ELSE d1
        d3 == [d2 EXCEPT !.changed = NoDir, !.failures = NoDir]   \* remove_dir_all, twice
    IN  [d3 EXCEPT !.new = create_dir_all(@),
                   !.changed = create_dir_all(@),
                   !.failures = create_dir_all(@)]

-----------------------------------------------------------------------------
(* panics.rs *)

\* the ThreadId of worker w of the runner's pool
ThreadId(w) == <<runner.pool, w>>

\* a hook that appends the message to the entry of every thread
custom_hook_every_entry(buffer, thread, msg) ==
    [t \in DOMAIN buffer \cup {thread} |->
        Append(IF t \in DOMAIN buffer THEN buffer[t] ELSE <<>>, msg)]

\* custom_hook recording nothing
custom_hook_records_nothing(buffer, thread, msg) == buffer

\* panics.rs 36-54: the hook run_in_custom_handler installs, run on `thread`
\* with the panic's message
custom_hook(buffer, thread, msg) ==
    [t \in DOMAIN buffer \cup {thread} |->
        IF t = thread
            THEN Append(IF t \in DOMAIN buffer THEN buffer[t] ELSE <<>>, msg)
            ELSE buffer[t]]

\* latest_panic finding no message for any thread
latest_panic_of_nobody(buffer, thread) == None

\* latest_panic giving the thread's first message instead of its last
latest_panic_first(buffer, thread) ==
    IF thread \notin DOMAIN buffer
        THEN None
        ELSE IF buffer[thread] = <<>> THEN None ELSE Some(buffer[thread][1])

\* panics.rs 19-26: latest_panic, called on `thread`
latest_panic(buffer, thread) ==
    IF thread \notin DOMAIN buffer
        THEN None
        ELSE IF buffer[thread] = <<>>
                 THEN None
                 ELSE Some(buffer[thread][Len(buffer[thread])])

-----------------------------------------------------------------------------
(* What the caller and the environment may do *)

\* the snapshot directories a behaviour may start with
SnapshotChoices ==
    { <<>>,
      [p \in {"a.png", "b/b_1.png"} |-> IF p = "a.png" THEN Png(FrameX) ELSE Png(FrameY)] }

\* what the emulator callback may do for a candidate: panic, or return frames
EmuRunChoices(candidate) ==
    IF candidate.is_sequence_test
        THEN { [panics |-> TRUE, frames |-> <<>>],
               [panics |-> FALSE, frames |-> <<>>],
               [panics |-> FALSE,
                frames |-> <<FrameOutput(Some("1"), FrameX), FrameOutput(Some("2"), FrameY)>>] }
        ELSE { [panics |-> TRUE, frames |-> <<>>],
               [panics |-> FALSE, frames |-> <<FrameOutput(None, FrameX)>>],
               [panics |-> FALSE, frames |-> <<FrameOutput(None, FrameY)>>] }

\* the message the callback panics with: it names the candidate and the run
PanicMsg(candidate) == <<candidate.rom_id, runs>>

Idle == [pc |-> "idle"]

\* a thread that has not called run_in_custom_handler
Outside == [pc |-> "outside", hook |-> None]

-----------------------------------------------------------------------------
(* The state machine *)

Init ==
    /\ runner = [exists |-> FALSE, pool |-> 0]
    /\ pools = 0
    /\ pc = "idle"
    /\ runs = 0
    /\ fs = [old |-> NoDir, new |-> NoDir, changed |-> NoDir, failures |-> NoDir]
    /\ snapshots \in SnapshotChoices
    /\ panic_hook = "default"
    /\ hook = "default"
    /\ PANIC_BUFFER = <<>>
    /\ tests = {}
    /\ wk = [w \in Workers |-> Idle]
    /\ frame_results = <<>>
    /\ todo = {}
    /\ test_results = <<>>
    /\ report = None
    /\ formatter = <<>>
    /\ ran = {}
    /\ classified = {}
    /\ last = None
    /\ timed_out = FALSE
    /\ other = Outside

\* lib.rs 39-55: EmuTestRunner::new
NewRunner ==
    /\ pc = "idle"
    /\ runs < MaxRuns
    /\ pools <= runs
    /\ fs' = setup_output_directory(fs)
    /\ pools' = pools + 1
    /\ runner' = [exists |-> TRUE, pool |-> pools + 1]
    /\ UNCHANGED <<other, timed_out, pc, runs, snapshots, panic_hook, hook, PANIC_BUFFER, tests, wk,
                   frame_results, todo, test_results, report, formatter, ran, classified, last>>

\* lib.rs 60-73: run_tests up to the start of the execution phase: handle_start,
\* then run_in_custom_handler's take_hook and set_hook (panics.rs 34-55)
RunTestsOn(given) ==
    /\ pc = "idle"
    /\ runner.exists
    /\ runs < MaxRuns
    /\ runs' = runs + 1
    /\ tests' = given
    /\ formatter' = <<[call |-> "handle_start", test_count |-> Cardinality(given)]>>
    /\ hook' = panic_hook
    /\ panic_hook' = "custom"
    /\ pc' = "exec"
    /\ frame_results' = <<>>
    /\ test_results' = <<>>
    /\ todo' = {}
    /\ report' = None
    /\ ran' = {}
    /\ classified' = {}
    /\ last' = IF runs = 0 THEN None ELSE Some(classified)
    /\ timed_out' = FALSE
    /\ UNCHANGED <<other, runner, pools, fs, snapshots, PANIC_BUFFER, wk>>

\* run_tests given every candidate
RunTests == RunTestsOn(Candidates)

\* a worker that runs the callback whether or not the ROM could be read
ReadRomRunsAnyway(w) ==
    /\ pc = "exec"
    /\ wk[w].pc = "idle"
    /\ \E candidate \in tests, readable \in BOOLEAN :
        /\ tests' = tests \ {candidate}
        /\ wk' = [wk EXCEPT ![w] = [pc |-> "run", candidate |-> candidate]]
        /\ ran' = IF readable
                      THEN ran
                      ELSE ran \cup {[candidate |-> candidate, did |-> "unreadable"]}
    /\ UNCHANGED <<other, timed_out, runner, pools, pc, runs, fs, snapshots, panic_hook, hook, PANIC_BUFFER,
                   frame_results, todo, test_results, report, formatter, classified, last>>

\* lib.rs 88-90: a worker takes the next candidate and reads its ROM
ReadRom(w) ==
    /\ pc = "exec"
    /\ wk[w].pc = "idle"
    /\ \E candidate \in tests, readable \in BOOLEAN :
        /\ tests' = tests \ {candidate}
        /\ wk' = [wk EXCEPT ![w] =
                    IF readable
                        THEN [pc |-> "run", candidate |-> candidate]
                        ELSE [pc |-> "report",
                              result |-> RunnerError(candidate, <<"Couldn't read ROM">>)]]
        /\ ran' = IF readable
                      THEN ran
                      ELSE ran \cup {[candidate |-> candidate, did |-> "unreadable"]}
    /\ UNCHANGED <<other, timed_out, runner, pools, pc, runs, fs, snapshots, panic_hook, hook, PANIC_BUFFER,
                   frame_results, todo, test_results, report, formatter, classified, last>>

\* lib.rs 94: emu_run inside catch_unwind.  A panic runs the process-wide hook on
\* this worker's thread before catch_unwind returns Err.
EmuRun(w) ==
    /\ pc = "exec"
    /\ wk[w].pc = "run"
    /\ \E c \in EmuRunChoices(wk[w].candidate) :
        IF c.panics
            THEN /\ PANIC_BUFFER' =
                        IF panic_hook = "custom"
                            THEN custom_hook(PANIC_BUFFER, ThreadId(w), PanicMsg(wk[w].candidate))
                            ELSE PANIC_BUFFER
                 /\ wk' = [wk EXCEPT ![w] = [pc |-> "caught", candidate |-> wk[w].candidate]]
                 /\ ran' = ran \cup {[candidate |-> wk[w].candidate, did |-> "panicked",
                                       msg |-> PanicMsg(wk[w].candidate)]}
            ELSE /\ wk' = [wk EXCEPT ![w] =
                            [pc |-> "report",
                             result |-> RunnerOutput(wk[w].candidate, c.frames)]]
                 /\ ran' = ran \cup {[candidate |-> wk[w].candidate, did |-> "returned",
                                       frames |-> c.frames]}
                 /\ UNCHANGED PANIC_BUFFER
    /\ UNCHANGED <<other, timed_out, runner, pools, pc, runs, fs, snapshots, panic_hook, hook, tests,
                   frame_results, todo, test_results, report, formatter, classified, last>>

\* lib.rs 96-102: the Err arm of the match: the cause is latest_panic().unwrap().
\* unwrap on None panics outside catch_unwind and takes run_tests down with it.
Recover(w) ==
    /\ pc = "exec"
    /\ wk[w].pc = "caught"
    /\ LET m == latest_panic(PANIC_BUFFER, ThreadId(w))
       IN  IF m = None
               THEN /\ pc' = "panicked"
                    /\ wk' = wk
               ELSE /\ pc' = pc
                    /\ wk' = [wk EXCEPT ![w] =
                                [pc |-> "report",
                                 result |-> RunnerError(wk[w].candidate,
                                                <<"Caught an emulator panic", m[1]>>)]]
    /\ UNCHANGED <<other, timed_out, runner, pools, runs, fs, snapshots, panic_hook, hook, PANIC_BUFFER, tests,
                   frame_results, todo, test_results, report, formatter, ran, classified, last>>

\* a result returned to collect() without the formatter having seen it
ReportResultUnseen(w) ==
    /\ pc = "exec"
    /\ wk[w].pc = "report"
    /\ frame_results' = Append(frame_results, wk[w].result)
    /\ wk' = [wk EXCEPT ![w] = Idle]
    /\ UNCHANGED <<other, timed_out, runner, pools, pc, runs, fs, snapshots, panic_hook, hook, PANIC_BUFFER,
                   tests, todo, test_results, report, formatter, ran, classified, last>>

\* lib.rs 113-117: the result is shown to the formatter and returned to collect()
ReportResult(w) ==
    /\ pc = "exec"
    /\ wk[w].pc = "report"
    /\ formatter' = Append(formatter, [call |-> "handle_test_progress", result |-> wk[w].result])
    /\ frame_results' = Append(frame_results, wk[w].result)
    /\ wk' = [wk EXCEPT ![w] = Idle]
    /\ UNCHANGED <<other, timed_out, runner, pools, pc, runs, fs, snapshots, panic_hook, hook, PANIC_BUFFER,
                   tests, todo, test_results, report, ran, classified, last>>

\* a collect() that returns with the results so far, whatever candidates are left
ExecDoneEarly ==
    /\ pc = "exec"
    /\ \A w \in Workers : wk[w].pc = "idle"
    /\ panic_hook' = hook
    /\ pc' = "classify"
    /\ todo' = 1..Len(frame_results)
    /\ test_results' = [i \in 1..Len(frame_results) |-> <<>>]
    /\ UNCHANGED <<other, timed_out, runner, pools, runs, fs, snapshots, hook, PANIC_BUFFER, tests, wk,
                   frame_results, report, formatter, ran, classified, last>>

\* lib.rs 119 and panics.rs 57-61: collect() has every result, install returns,
\* run_in_custom_handler puts the saved hook back; lib.rs 74: process_results begins
ExecDone ==
    /\ pc = "exec"
    /\ tests = {}
    /\ \A w \in Workers : wk[w].pc = "idle"
    /\ panic_hook' = hook
    /\ pc' = "classify"
    /\ todo' = 1..Len(frame_results)
    /\ test_results' = [i \in 1..Len(frame_results) |-> <<>>]
    /\ UNCHANGED <<other, timed_out, runner, pools, runs, fs, snapshots, hook, PANIC_BUFFER, tests, wk,
                   frame_results, report, formatter, ran, classified, last>>

\* lib.rs 126-130: a worker takes one result; an Err becomes its one TestOutput
TakeResult(w) ==
    /\ pc = "classify"
    /\ wk[w].pc = "idle"
    /\ \E i \in todo :
        /\ todo' = todo \ {i}
        /\ IF ~frame_results[i].ok
               THEN /\ test_results' = [test_results EXCEPT ![i] = <<ErrorToTestOutput(frame_results[i])>>]
                    /\ wk' = wk
               ELSE /\ test_results' = test_results
                    /\ wk' = [wk EXCEPT ![w] =
                                IF frame_results[i].frame_output = <<>>
                                    THEN Idle
                                    ELSE [pc |-> "frames", idx |-> i, n |-> 1,
                                          candidate |-> frame_results[i].candidate,
                                          rest |-> frame_results[i].frame_output]]
    /\ UNCHANGED <<other, timed_out, runner, pools, pc, runs, fs, snapshots, panic_hook, hook, PANIC_BUFFER,
                   tests, frame_results, report, formatter, ran, classified, last>>

\* lib.rs 204-224: the lambda returns for the next frame of the worker's result; `at`
\* is where the worker stands ("frames": about to call the lambda)
\* the frames of a result classified up to the first Error
ClassifyFrameStopsAtError(w, io, at) ==
    /\ pc = "classify"
    /\ wk[w].pc = at
    /\  LET frame == Head(wk[w].rest)
            r == Lambda(fs, snapshots, wk[w].candidate, frame, io)
            out == FrameToTestOutput(wk[w].candidate, r)
            p == path_suffix(wk[w].candidate, frame.tag)
        IN  /\ fs' = r.fs
            /\ test_results' = [test_results EXCEPT ![wk[w].idx] = Append(@, out)]
            /\ classified' = classified \cup
                    {[candidate |-> wk[w].candidate, n |-> wk[w].n, frame |-> frame, io |-> io,
                      old |-> IF HasFile(fs.old.files, p) THEN Some(fs.old.files[p]) ELSE None,
                      output |-> out.output]}
    /\ wk' = [wk EXCEPT ![w] =
                IF \/ Tail(wk[w].rest) = <<>>
                   \/ from_raw(Head(wk[w].rest).frame) = None
                   \/ io # IoOk
                    THEN Idle
                    ELSE [@ EXCEPT !.pc = "frames", !.rest = Tail(@), !.n = @ + 1]]
    /\ UNCHANGED <<other, timed_out, runner, pools, pc, runs, snapshots, panic_hook, hook, PANIC_BUFFER,
                   tests, frame_results, todo, report, formatter, ran, last>>

ClassifyFrameFrom(w, io, at) ==
    /\ pc = "classify"
    /\ wk[w].pc = at
    /\  LET frame == Head(wk[w].rest)
            r == Lambda(fs, snapshots, wk[w].candidate, frame, io)
            out == FrameToTestOutput(wk[w].candidate, r)
            p == path_suffix(wk[w].candidate, frame.tag)
        IN  /\ fs' = r.fs
            /\ test_results' = [test_results EXCEPT ![wk[w].idx] = Append(@, out)]
            /\ classified' = classified \cup
                    {[candidate |-> wk[w].candidate, n |-> wk[w].n, frame |-> frame, io |-> io,
                      old |-> IF HasFile(fs.old.files, p) THEN Some(fs.old.files[p]) ELSE None,
                      output |-> out.output]}
    /\ wk' = [wk EXCEPT ![w] =
                IF Tail(wk[w].rest) = <<>>
                    THEN Idle
                    ELSE [@ EXCEPT !.pc = "frames", !.rest = Tail(@), !.n = @ + 1]]
    /\ UNCHANGED <<other, timed_out, runner, pools, pc, runs, snapshots, panic_hook, hook, PANIC_BUFFER,
                   tests, frame_results, todo, report, formatter, ran, last>>

\* lib.rs 204-224: the worker classifies the next frame of its result
ClassifyFrame(w, io) == ClassifyFrameFrom(w, io, "frames")

\* the outputs collected with each result's outputs last to first
RECURSIVE FlattenBackwards(_)
FlattenBackwards(seqs) ==
    IF seqs = <<>>
        THEN <<>>
        ELSE LET h == Head(seqs)
             IN  (IF h = <<>> THEN <<>> ELSE [i \in 1..Len(h) |-> h[Len(h) + 1 - i]])
                     \o FlattenBackwards(Tail(seqs))

\* a collect() that keeps the outputs of the first result only
FlattenFirstOnly(seqs) == IF seqs = <<>> THEN <<>> ELSE Head(seqs)

RECURSIVE Flatten(_)
\* flat_map(..).collect(): the outputs of the results, in the order of the results
Flatten(seqs) == IF seqs = <<>> THEN <<>> ELSE Head(seqs) \o Flatten(Tail(seqs))

\* lib.rs 76-78: every result is classified; the report is built and handed to
\* handle_complete, and run_tests returns
Complete ==
    /\ pc = "classify"
    /\ todo = {}
    /\ \A w \in Workers : wk[w].pc = "idle"
    /\ report' = Some(TestReportNew(Flatten(test_results)))
    /\ formatter' = Append(formatter, [call |-> "handle_complete"])
    /\ pc' = "idle"
    /\ UNCHANGED <<other, timed_out, runner, pools, runs, fs, snapshots, panic_hook, hook, PANIC_BUFFER,
                   tests, wk, frame_results, todo, test_results, ran, classified, last>>

Next ==
    \/ NewRunner
    \/ RunTests
    \/ \E w \in Workers : ReadRom(w)
    \/ \E w \in Workers : EmuRun(w)
    \/ \E w \in Workers : Recover(w)
    \/ \E w \in Workers : ReportResult(w)
    \/ ExecDone
    \/ \E w \in Workers : TakeResult(w)
    \/ \E w \in Workers : ClassifyFrame(w, IoOk)
    \/ Complete

Spec == Init /\ [][Next]_vars

-----------------------------------------------------------------------------
(* The run with the steps of the lambda apart: the write of the `new` file and   *)
(* the reads of the `old` file and the snapshot take time, and other workers act *)
(* meanwhile                                                                     *)

\* lib.rs 131-156: the image is built and image_frame.save begins
BeginSave(w) ==
    /\ pc = "classify"
    /\ wk[w].pc = "frames"
    /\ from_raw(Head(wk[w].rest).frame) # None
    /\ wk' = [wk EXCEPT ![w].pc = "save"]
    /\ UNCHANGED <<other, timed_out, runner, pools, pc, runs, fs, snapshots, panic_hook, hook, PANIC_BUFFER,
                   tests, frame_results, todo, test_results, report, formatter, ran,
                   classified, last>>

\* lib.rs 156-170: save has returned; the snapshot and the `old` file are looked up and
\* opened
BeginCompare(w) ==
    /\ pc = "classify"
    /\ wk[w].pc = "save"
    /\ wk' = [wk EXCEPT ![w].pc = "compare"]
    /\ UNCHANGED <<other, timed_out, runner, pools, pc, runs, fs, snapshots, panic_hook, hook, PANIC_BUFFER,
                   tests, frame_results, todo, test_results, report, formatter, ran,
                   classified, last>>

\* lib.rs 171-201: the comparison is done, the lambda returns
EndCompare(w) == ClassifyFrameFrom(w, IoOk, "compare")

NextSteps ==
    \/ NewRunner
    \/ RunTests
    \/ \E w \in Workers : ReadRom(w)
    \/ \E w \in Workers : EmuRun(w)
    \/ \E w \in Workers : Recover(w)
    \/ \E w \in Workers : ReportResult(w)
    \/ ExecDone
    \/ \E w \in Workers : TakeResult(w)
    \/ \E w \in Workers : BeginSave(w)
    \/ \E w \in Workers : BeginCompare(w)
    \/ \E w \in Workers : EndCompare(w)
    \/ Complete

SpecSteps == Init /\ [][NextSteps]_vars

-----------------------------------------------------------------------------
(* run_in_custom_handler with a function a panic propagates out of: the          *)
(* formatter is the caller's code, and its panic in a worker is not inside       *)
(* catch_unwind                                                                  *)

\* lib.rs 115: handle_test_progress panics.  The hook in effect runs on the worker's
\* thread, rayon carries the panic to the caller of install, function() at panics.rs 56
\* unwinds and set_hook(hook) at panics.rs 58 is not reached.
ProgressPanics(w) ==
    /\ pc = "exec"
    /\ wk[w].pc = "report"
    /\ PANIC_BUFFER' =
            IF panic_hook = "custom"
                THEN custom_hook(PANIC_BUFFER, ThreadId(w), <<"formatter", runs>>)
                ELSE PANIC_BUFFER
    /\ pc' = "panicked"
    /\ UNCHANGED <<other, timed_out, runner, pools, runs, fs, snapshots, panic_hook, hook, tests, wk,
                   frame_results, todo, test_results, report, formatter, ran, classified,
                   last>>

NextHook ==
    \/ Next
    \/ \E w \in Workers : ProgressPanics(w)

SpecHook == Init /\ [][NextHook]_vars

-----------------------------------------------------------------------------
(* process_results on the results of two candidates of distinct ids, over ids    *)
(* and frame tags that hold the characters the paths are put together with       *)

IdChoices == {"a", "a_1", "b"}

TagChoices == {None, Some("1")}

\* an Ok result with one frame
OneFrameChoices ==
    { RunnerOutput(TestCandidate(id, s), <<FrameOutput(t, FrameX)>>) :
        id \in IdChoices, s \in BOOLEAN, t \in TagChoices }

\* the results of two candidates of distinct ids
ResultPairChoices ==
    { q \in OneFrameChoices \X OneFrameChoices : q[1].candidate.rom_id # q[2].candidate.rom_id }

InitPaths ==
    /\ runner = [exists |-> TRUE, pool |-> 1]
    /\ pools = 1
    /\ pc = "classify"
    /\ runs = 1
    /\ fs = setup_output_directory([old |-> NoDir, new |-> NoDir, changed |-> NoDir, failures |-> NoDir])
    /\ snapshots = <<>>
    /\ panic_hook = "default"
    /\ hook = "default"
    /\ PANIC_BUFFER = <<>>
    /\ tests = {}
    /\ wk = [w \in Workers |-> Idle]
    /\ frame_results \in ResultPairChoices
    /\ todo = {1, 2}
    /\ test_results = << <<>>, <<>> >>
    /\ report = None
    /\ formatter = <<>>
    /\ ran = {}
    /\ classified = {}
    /\ last = None
    /\ timed_out = FALSE
    /\ other = Outside

NextPaths ==
    \/ \E w \in Workers : TakeResult(w)
    \/ \E w \in Workers : ClassifyFrame(w, IoOk)
    \/ Complete

SpecPaths == InitPaths /\ [][NextPaths]_vars

-----------------------------------------------------------------------------
(* The run with the clock: the configured timeout may pass while run_tests runs  *)

\* options.timeout has passed since `start` (lib.rs 68); nothing in run_tests
\* (lib.rs 60-79) reads options.timeout or watches the clock
TimeoutExpires ==
    /\ timeout # None
    /\ pc \in {"exec", "classify"}
    /\ ~timed_out
    /\ timed_out' = TRUE
    /\ UNCHANGED <<other, runner, pools, pc, runs, fs, snapshots, panic_hook, hook, PANIC_BUFFER,
                   tests, wk, frame_results, todo, test_results, report, formatter, ran,
                   classified, last>>

NextTimeout ==
    \/ Next
    \/ TimeoutExpires

SpecTimeout == Init /\ [][NextTimeout]_vars

-----------------------------------------------------------------------------
(* Two calls of run_in_custom_handler that overlap: while run_tests runs, another *)
(* thread of the process (a second run_tests call) goes through                   *)
(* run_in_custom_handler on the same process-wide panic hook                      *)

\* panics.rs 34: take_hook returns the registered hook and leaves the default one
OtherTakeHook ==
    /\ other.pc = "outside"
    /\ other' = [pc |-> "taken", hook |-> Some(panic_hook)]
    /\ panic_hook' = "default"
    /\ UNCHANGED <<timed_out, runner, pools, pc, runs, fs, snapshots, hook, PANIC_BUFFER, tests,
                   wk, frame_results, todo, test_results, report, formatter, ran, classified,
                   last>>

\* panics.rs 36-54: set_hook of the recording closure
OtherSetHook ==
    /\ other.pc = "taken"
    /\ other' = [other EXCEPT !.pc = "inside"]
    /\ panic_hook' = "custom"
    /\ UNCHANGED <<timed_out, runner, pools, pc, runs, fs, snapshots, hook, PANIC_BUFFER, tests,
                   wk, frame_results, todo, test_results, report, formatter, ran, classified,
                   last>>

\* panics.rs 56-58: function() has returned, set_hook(hook) of the hook taken at entry
OtherRestoreHook ==
    /\ other.pc = "inside"
    /\ other' = [other EXCEPT !.pc = "returned"]
    /\ panic_hook' = other.hook[1]
    /\ UNCHANGED <<timed_out, runner, pools, pc, runs, fs, snapshots, hook, PANIC_BUFFER, tests,
                   wk, frame_results, todo, test_results, report, formatter, ran, classified,
                   last>>

NextScopes ==
    \/ Next
    \/ OtherTakeHook
    \/ OtherSetHook
    \/ OtherRestoreHook

SpecScopes == Init /\ [][NextScopes]_vars

-----------------------------------------------------------------------------
(* run_tests on any set of candidates, the empty one included, with the steps of *)
(* a started run taken for as long as one is possible: the pool's workers keep   *)
(* running, the callback returns or panics, and the file operations return       *)

\* what the pool and run_tests do once run_tests is past handle_start
RunSteps ==
    \/ \E w \in Workers : ReadRom(w)
    \/ \E w \in Workers : EmuRun(w)
    \/ \E w \in Workers : Recover(w)
    \/ \E w \in Workers : ReportResult(w)
    \/ ExecDone
    \/ \E w \in Workers : TakeResult(w)
    \/ \E w \in Workers : ClassifyFrame(w, IoOk)
    \/ Complete

NextLive ==
    \/ NewRunner
    \/ \E given \in SUBSET Candidates : RunTestsOn(given)
    \/ RunSteps

SpecLive == Init /\ [][NextLive]_vars /\ WF_vars(RunSteps)

-----------------------------------------------------------------------------
(* EmuTestRunner::new on any state of the output directory                       *)

\* what a generation directory may be: missing, empty, or holding files
DirChoices ==
    { NoDir, EmptyDir,
      [exists |-> TRUE, files |-> PutFile(<<>>, "a.png", Png(FrameX))],
      [exists |-> TRUE, files |-> PutFile(<<>>, "a.png", Png(FrameY))],
      [exists |-> TRUE, files |-> PutFile(PutFile(<<>>, "a.png", Png(FrameX)), "b/b_1.png", Png(FrameY))] }

InitSetup ==
    /\ runner = [exists |-> FALSE, pool |-> 0]
    /\ pools = 0
    /\ pc = "idle"
    /\ runs = 0
    /\ fs \in [{"old", "new", "changed", "failures"} -> DirChoices]
    /\ snapshots = <<>>
    /\ panic_hook = "default"
    /\ hook = "default"
    /\ PANIC_BUFFER = <<>>
    /\ tests = {}
    /\ wk = [w \in Workers |-> Idle]
    /\ frame_results = <<>>
    /\ todo = {}
    /\ test_results = <<>>
    /\ report = None
    /\ formatter = <<>>
    /\ ran = {}
    /\ classified = {}
    /\ last = None
    /\ timed_out = FALSE
    /\ other = Outside

SpecSetup == InitSetup /\ [][NewRunner]_vars

-----------------------------------------------------------------------------
(* TestReport::new on any list of outputs: the state at lib.rs 76, with the      *)
(* outputs process_results returned drawn from OutputPool                        *)

OutputPool ==
    { TestOutput(TestCandidate("a", FALSE), "Some", TestOutputPassed(TRUE)),
      TestOutput(TestCandidate("a", FALSE), "Some", TestOutputUnchanged(FALSE)),
      TestOutput(TestCandidate("b", TRUE), "Some", TestOutputChanged("b/b_1.png", "b/b_1.png")),
      TestOutput(TestCandidate("b", TRUE), "Some", TestOutputFailure("b/b_2.png", "b/b_2.png", FALSE)),
      TestOutput(TestCandidate("a", FALSE), "None", TestOutputError(<<"Couldn't read ROM">>)),
      TestOutput(TestCandidate("b", TRUE), "Some", TestOutputError("save")) }

RECURSIVE SeqsUpTo(_, _)
\* the sequences over S of length at most n
SeqsUpTo(S, n) ==
    IF n = 0
        THEN {<<>>}
        ELSE LET shorter == SeqsUpTo(S, n - 1)
             IN  shorter \cup {Append(q, x) : q \in shorter, x \in S}

InitReport ==
    /\ runner = [exists |-> TRUE, pool |-> 1]
    /\ pools = 1
    /\ pc = "classify"
    /\ runs = 1
    /\ fs = setup_output_directory([old |-> NoDir, new |-> NoDir, changed |-> NoDir, failures |-> NoDir])
    /\ snapshots = <<>>
    /\ panic_hook = "default"
    /\ hook = "default"
    /\ PANIC_BUFFER = <<>>
    /\ tests = {}
    /\ wk = [w \in Workers |-> Idle]
    /\ frame_results = <<>>
    /\ todo = {}
    /\ \E outputs \in SeqsUpTo(OutputPool, MaxOutputs) : test_results = <<outputs>>
    /\ report = None
    /\ formatter = <<>>
    /\ ran = {}
    /\ classified = {}
    /\ last = None
    /\ timed_out = FALSE
    /\ other = Outside

SpecReport == InitReport /\ [][Complete]_vars

-----------------------------------------------------------------------------
(* process_results (a pub fn) called on one result, over any state of the frame's *)
(* files and with any outcome of the writes                                       *)

\* what a path may hold: nothing, a decodable image, an undecodable file
FileChoices == {None, Some(Png(FrameX)), Some(Png(FrameY)), Some(Corrupt)}

\* the directory holding what `file` says at p
DirWith(p, file) ==
    IF file = None THEN EmptyDir ELSE [exists |-> TRUE, files |-> PutFile(<<>>, p, file[1])]

FrameChoices == {FrameX, FrameY, FrameShort, FrameLong}

\* the results given: an Err, or an Ok with one frame (tagged for the sequence test)
ResultChoices ==
    { RunnerError(c, <<"Couldn't read ROM">>) : c \in Candidates }
    \cup { RunnerOutput(c, <<FrameOutput(IF c.is_sequence_test THEN Some("1") ELSE None, f)>>) :
             c \in Candidates, f \in FrameChoices }

InitClassify ==
    /\ runner = [exists |-> TRUE, pool |-> 1]
    /\ pools = 1
    /\ pc = "classify"
    /\ runs = 1
    /\ \E result \in ResultChoices, old_file \in FileChoices, snapshot_file \in FileChoices :
        LET p == path_suffix(result.candidate, IF result.candidate.is_sequence_test THEN Some("1") ELSE None)
        IN  /\ frame_results = <<result>>
            /\ fs = [old |-> DirWith(p, old_file), new |-> EmptyDir,
                     changed |-> EmptyDir, failures |-> EmptyDir]
            /\ snapshots = DirWith(p, snapshot_file).files
    /\ panic_hook = "default"
    /\ hook = "default"
    /\ PANIC_BUFFER = <<>>
    /\ tests = {}
    /\ wk = [w \in Workers |-> Idle]
    /\ todo = {1}
    /\ test_results = <<<<>>>>
    /\ report = None
    /\ formatter = <<>>
    /\ ran = {}
    /\ classified = {}
    /\ last = None
    /\ timed_out = FALSE
    /\ other = Outside

NextClassify ==
    \/ \E w \in Workers : TakeResult(w)
    \/ \E w \in Workers, io \in IoChoices : ClassifyFrame(w, io)
    \/ Complete

SpecClassify == InitClassify /\ [][NextClassify]_vars

-----------------------------------------------------------------------------
(* process_results on the result of one sequence test with two frames, over the  *)
(* files of both frames and with any outcome of the writes                       *)

\* what `old` and the snapshot directory may hold at the path of a frame
OldChoices == {None, Some(Png(FrameX)), Some(Png(FrameY))}

SnapshotFileChoices == {None, Some(Png(FrameX)), Some(Corrupt)}

\* the files at the paths of frame 1 and frame 2 of candidate c
TwoFiles(c, file1, file2) ==
    LET files1 == DirWith(path_suffix(c, Some("1")), file1).files
    IN  IF file2 = None THEN files1 ELSE PutFile(files1, path_suffix(c, Some("2")), file2[1])

InitSequence ==
    /\ runner = [exists |-> TRUE, pool |-> 1]
    /\ pools = 1
    /\ pc = "classify"
    /\ runs = 1
    /\ \E f1 \in FrameChoices, f2 \in FrameChoices, o1 \in OldChoices, o2 \in OldChoices,
          s1 \in SnapshotFileChoices, s2 \in SnapshotFileChoices :
        LET c == TestCandidate("b", TRUE)
        IN  /\ frame_results =
                    <<RunnerOutput(c, <<FrameOutput(Some("1"), f1), FrameOutput(Some("2"), f2)>>)>>
            /\ fs = [old |-> [exists |-> TRUE, files |-> TwoFiles(c, o1, o2)],
                     new |-> EmptyDir, changed |-> EmptyDir, failures |-> EmptyDir]
            /\ snapshots = TwoFiles(c, s1, s2)
    /\ panic_hook = "default"
    /\ hook = "default"
    /\ PANIC_BUFFER = <<>>
    /\ tests = {}
    /\ wk = [w \in Workers |-> Idle]
    /\ todo = {1}
    /\ test_results = << <<>> >>
    /\ report = None
    /\ formatter = <<>>
    /\ ran = {}
    /\ classified = {}
    /\ last = None
    /\ timed_out = FALSE
    /\ other = Outside

SpecSequence == InitSequence /\ [][NextClassify]_vars

-----------------------------------------------------------------------------
(* Claims *)

\* the outputs of kind `kind` among `outputs`, in order, as their bucket holds them
OfKind(outputs, kind) ==
    LET q == SelectSeq(outputs, LAMBDA o : o.output.kind = kind)
    IN  [i \in 1..Len(q) |-> BucketEntry(q[i])]

\* C1: the report built from any list of outputs keeps the list as it is, its five
\* buckets together hold as many entries as the list, and each bucket holds exactly
\* the outputs of its kind (so every output is in one bucket, the one of its kind).
C1_ReportPartitions ==
    report # None =>
        LET r == report[1]
            all == Flatten(test_results)
        IN  /\ r.test_outputs = all
            /\ Len(r.passed) + Len(r.unchanged) + Len(r.changed) + Len(r.fails)
                    + Len(r.errors) = Len(all)
            /\ r.passed = OfKind(all, "Passed")
            /\ r.unchanged = OfKind(all, "Unchanged")
            /\ r.changed = OfKind(all, "Changed")
            /\ r.fails = OfKind(all, "Failure")
            /\ r.errors = OfKind(all, "Error")

\* a report of a list holding an Error, a Failure and a Passed output
C1_Witness ==
    /\ report # None
    /\ Len(report[1].errors) >= 1
    /\ Len(report[1].fails) >= 1
    /\ Len(report[1].passed) >= 1

\* the indices of frame_results holding candidate c's result
ResultsOf(c) == {i \in 1..Len(frame_results) : frame_results[i].candidate = c}

\* C2: no panic of the callback takes run_tests down; no candidate ever has two
\* results; when the execution phase has returned there is exactly one result per
\* candidate, an Err for a candidate whose ROM was unreadable or whose callback
\* panicked, and for a candidate whose callback returned the Ok with its own frames.
C2_OneResultPerCandidate ==
    /\ pc # "panicked"
    /\ \A c \in Candidates : Cardinality(ResultsOf(c)) <= 1
    /\ pc = "classify" =>
        /\ Len(frame_results) = Cardinality(Candidates)
        /\ \A c \in Candidates : Cardinality(ResultsOf(c)) = 1
        /\ \A x \in ran : \A i \in ResultsOf(x.candidate) :
            IF x.did = "returned"
                THEN frame_results[i] = RunnerOutput(x.candidate, x.frames)
                ELSE ~frame_results[i].ok

\* the execution phase has returned, one candidate panicked and its sibling returned frames
C2_Witness ==
    /\ pc = "classify"
    /\ \E x, y \in ran :
        /\ x.did = "panicked"
        /\ y.did = "returned"
        /\ y.frames # <<>>
        /\ \E i \in ResultsOf(y.candidate) : frame_results[i].ok

\* C3: the cause of the Err of a candidate whose callback panicked is the message of
\* that candidate's own panic in this run, whatever other workers, earlier candidates
\* and earlier runs left in the buffer.
C3_CauseIsOwnPanic ==
    \A x \in ran : \A i \in ResultsOf(x.candidate) :
        x.did = "panicked" =>
            frame_results[i] = RunnerError(x.candidate, <<"Caught an emulator panic", x.msg>>)

\* both candidates of a second run on the same runner panicked, one worker caught
\* both, after panics of the first run, and both results are in
C3_Witness ==
    /\ runs = 2
    /\ \A c \in Candidates : \E x \in ran : x.candidate = c /\ x.did = "panicked"
    /\ Len(frame_results) = 2
    /\ \E t \in DOMAIN PANIC_BUFFER : Len(PANIC_BUFFER[t]) >= 3

\* the files a run's classified frames wrote to `new`
WrittenBy(events) ==
    LET done == {e \in events : from_raw(e.frame.frame) # None /\ e.io.save = "ok"}
        paths == {path_suffix(e.candidate, e.frame.tag) : e \in done}
    IN  [p \in paths |->
            LET e == CHOOSE e \in done : path_suffix(e.candidate, e.frame.tag) = p
            IN  Png(inner_pixels(e.frame.frame))]

\* C4: when a run_tests call starts after another one, `old` holds exactly the frames
\* the call before it wrote to `new`, and `changed` and `failures` are empty.
C4_OldIsPrecedingRun ==
    (pc = "exec" /\ last # None) =>
        /\ fs.old.files = WrittenBy(last[1])
        /\ fs.changed.files = <<>>
        /\ fs.failures.files = <<>>

\* the path of the frame of event e below a generation directory
PathOf(e) == path_suffix(e.candidate, e.frame.tag)

\* the frame of event e was turned into an image and written to `new`
Persisted(e) == from_raw(e.frame.frame) # None /\ e.io.save = "ok"

\* `file` (None, or Some file) is there, decodes, and holds exactly `bytes`
Identical(file, bytes) == file # None /\ file[1].ok /\ file[1].bytes = bytes

\* the golden snapshot at path p: None, or Some file
SnapshotAt(p) == IF HasFile(snapshots, p) THEN Some(snapshots[p]) ELSE None

\* C5: a frame that was persisted (its snapshot, if there is one, decodes, and the
\* copy into `failures` or `changed` succeeds) has the outcome of the decision table:
\* with a snapshot, Passed when the snapshot equals the frame and Failure, the frame
\* copied into `failures`, when it differs, whatever `old` holds; without a snapshot,
\* Unchanged when `old` holds the frame and Changed, the frame copied into `changed`,
\* when `old` is missing or differs.
C5_DecisionTable ==
    \A e \in classified :
        LET p == PathOf(e)
            frame == e.frame.frame
            snapshot == SnapshotAt(p)
        IN  (Persisted(e) /\ e.io.copy = "ok" /\ (snapshot # None => snapshot[1].ok)) =>
                /\ HasFile(fs.new.files, p)
                /\ fs.new.files[p] = Png(inner_pixels(frame))
                /\ IF snapshot # None
                       THEN IF snapshot[1].bytes = frame
                                THEN e.output.kind = "Passed"
                                ELSE /\ e.output.kind = "Failure"
                                     /\ HasFile(fs.failures.files, p)
                                     /\ fs.failures.files[p] = fs.new.files[p]
                       ELSE IF Identical(e.old, frame)
                                THEN e.output.kind = "Unchanged"
                                ELSE /\ e.output.kind = "Changed"
                                     /\ HasFile(fs.changed.files, p)
                                     /\ fs.changed.files[p] = fs.new.files[p]

\* a frame that differs from its snapshot while `old` holds exactly the frame: Failure,
\* not Unchanged, and the frame is in `failures`
C5_Witness ==
    \E e \in classified :
        /\ Persisted(e)
        /\ SnapshotAt(PathOf(e)) # None
        /\ Identical(e.old, e.frame.frame)
        /\ e.output.kind = "Failure"
        /\ HasFile(fs.failures.files, PathOf(e))

\* two byte sequences of one length that differ in one byte only, by one
DifferByOne(a, b) ==
    /\ Len(a) = Len(b)
    /\ \E i \in 1..Len(a) :
        /\ a[i] - b[i] \in {-1, 1}
        /\ \A j \in 1..Len(a) : j # i => a[j] = b[j]

\* what the frame of event e is compared against: the snapshot, or without one `old`
BaselineOf(e) == IF SnapshotAt(PathOf(e)) # None THEN SnapshotAt(PathOf(e)) ELSE e.old

\* C8: a frame of the expected dimensions whose baseline (the snapshot, or without a
\* snapshot the `old` file) decodes to an image of these dimensions that differs from
\* it in at least one byte is never Unchanged and never Passed, whatever the writes do;
\* when the writes succeed it is Failure against a snapshot and Changed against `old`.
C8_ByteExact ==
    \A e \in classified :
        LET frame == e.frame.frame
            baseline == BaselineOf(e)
        IN  ( /\ Len(frame) = FrameBytes
              /\ baseline # None
              /\ baseline[1].ok
              /\ Len(baseline[1].bytes) = FrameBytes
              /\ baseline[1].bytes # frame ) =>
                /\ e.output.kind \notin {"Unchanged", "Passed"}
                /\ e.io = IoOk =>
                    e.output.kind = IF SnapshotAt(PathOf(e)) # None THEN "Failure" ELSE "Changed"

\* a frame one off in one channel of its pixel from what `old` holds, no snapshot: Changed
C8_Witness ==
    \E e \in classified :
        /\ SnapshotAt(PathOf(e)) = None
        /\ e.old # None
        /\ e.old[1].ok
        /\ DifferByOne(e.old[1].bytes, e.frame.frame)
        /\ e.output.kind = "Changed"

\* C10: a persisted frame that equals its snapshot is Passed, and is_new is true
\* exactly when `old` did not hold, before the comparison, a file that decodes to the
\* bytes of the snapshot (so also when `old` holds no file for the frame).
C10_PassedIsNew ==
    \A e \in classified :
        LET snapshot == SnapshotAt(PathOf(e))
        IN  (Persisted(e) /\ Identical(snapshot, e.frame.frame)) =>
                /\ e.output.kind = "Passed"
                /\ e.output.is_new <=> ~Identical(e.old, snapshot[1].bytes)

\* a frame equal to its snapshot with no file in `old`: Passed, is_new
C10_Witness ==
    \E e \in classified :
        /\ Identical(SnapshotAt(PathOf(e)), e.frame.frame)
        /\ e.old = None
        /\ e.output = TestOutputPassed(TRUE)

\* the frames a run classified: candidate, position among the candidate's frames, frame
FramesOf(events) == {<<e.candidate, e.n, e.frame>> : e \in events}

\* the event of the run before for the frame of event e, if that run classified it
Before(e) == {e0 \in last[1] : e0.candidate = e.candidate /\ e0.n = e.n /\ e0.frame.tag = e.frame.tag}

\* C6: with no golden snapshots, when a run has classified the same frames of the
\* same candidates as the run before it, every frame of it is Unchanged.
C6_Idempotent ==
    ( /\ pc = "idle"
      /\ last # None
      /\ snapshots = <<>>
      /\ classified # {}
      /\ FramesOf(classified) = FramesOf(last[1]) ) =>
        \A e \in classified : e.output.kind = "Unchanged"

\* C7: a frame that differs from its snapshot is Failure with is_new = true when the
\* run before produced the snapshot's image for it (run A, then run B), and Failure
\* with is_new = false when the run before produced the same differing frame (run B
\* repeated).
C7_RegressionDetection ==
    last # None =>
        \A e \in classified : \A e0 \in Before(e) :
            LET snapshot == SnapshotAt(PathOf(e))
            IN  (snapshot # None /\ ~Identical(snapshot, e.frame.frame)) =>
                    /\ Identical(snapshot, e0.frame.frame) =>
                            /\ e.output.kind = "Failure"
                            /\ e.output.is_new
                    /\ e0.frame = e.frame =>
                            /\ e.output.kind = "Failure"
                            /\ ~e.output.is_new

\* C9: an Unchanged frame has newly_added = true exactly when `old` held no file for
\* it before the comparison; without a snapshot, a frame of the first run is Changed,
\* and a frame identical to the one the run before produced is Unchanged with
\* newly_added = false.
C9_NewlyAdded ==
    /\ \A e \in classified :
        e.output.kind = "Unchanged" => (e.output.newly_added <=> e.old = None)
    /\ \A e \in classified :
        (last = None /\ SnapshotAt(PathOf(e)) = None) => e.output.kind = "Changed"
    /\ last # None =>
        \A e \in classified : \A e0 \in Before(e) :
            (SnapshotAt(PathOf(e)) = None /\ e0.frame = e.frame) =>
                e.output = TestOutputUnchanged(FALSE)

\* the copy into `failures` or `changed` is reached for the frame of event e
CopyReached(e) ==
    LET snapshot == SnapshotAt(PathOf(e))
    IN  IF snapshot # None
            THEN snapshot[1].ok /\ snapshot[1].bytes # e.frame.frame
            ELSE ~Identical(e.old, e.frame.frame)

\* the `old` file of the frame of event e is opened
OldOpened(e) ==
    LET snapshot == SnapshotAt(PathOf(e))
    IN  /\ e.old # None
        /\ \/ snapshot = None
           \/ (snapshot[1].ok /\ (CopyReached(e) => e.io.copy = "ok"))

\* classifying the frame of event e met a failure of a write, or a file that does not
\* decode
FailureMet(e) ==
    /\ from_raw(e.frame.frame) # None
    /\ \/ e.io.save # "ok"
       \/ /\ e.io.save = "ok"
          /\ \/ (SnapshotAt(PathOf(e)) # None /\ ~SnapshotAt(PathOf(e))[1].ok)
             \/ (OldOpened(e) /\ ~e.old[1].ok)
             \/ (CopyReached(e) /\ e.io.copy # "ok")

\* C11: a frame whose classification met a failed write of the `new` image, an
\* undecodable snapshot, an undecodable `old` file or a failed copy has the outcome
\* Error.
C11_FailureIsError ==
    \A e \in classified : FailureMet(e) => e.output.kind = "Error"

\* the outputs of the report for candidate c, in order
OutputsFor(c) == SelectSeq(report[1].test_outputs, LAMBDA o : o.candidate = c)

\* C12: in the report of a run, a candidate whose result is Ok with N frames has
\* exactly N outputs, the j-th being the outcome of classifying its j-th frame, and a
\* candidate whose result is Err has exactly one output, of kind Error.
C12_OutputPerFrame ==
    report # None =>
        \A i \in 1..Len(frame_results) :
            LET r == frame_results[i]
                outs == OutputsFor(r.candidate)
            IN  IF r.ok
                    THEN /\ Len(outs) = Len(r.frame_output)
                         /\ \A j \in 1..Len(outs) :
                                \E e \in classified :
                                    /\ e.candidate = r.candidate
                                    /\ e.n = j
                                    /\ e.frame = r.frame_output[j]
                                    /\ e.output = outs[j].output
                    ELSE /\ Len(outs) = 1
                         /\ outs[1].output.kind = "Error"

\* the report of a run in which one candidate returned two frames and the other has an
\* Err result
C12_Witness ==
    /\ report # None
    /\ \E i, k \in 1..Len(frame_results) :
        /\ frame_results[i].ok
        /\ Len(frame_results[i].frame_output) = 2
        /\ Len(OutputsFor(frame_results[i].candidate)) = 2
        /\ ~frame_results[k].ok

\* every candidate of the run was read or run, and its result is in frame_results
AllCollected ==
    /\ tests = {}
    /\ \A w \in Workers : wk[w].pc \in {"idle", "frames"}
    /\ \A c \in Candidates :
        /\ \E x \in ran : x.candidate = c
        /\ Cardinality(ResultsOf(c)) = 1

\* C13: within a run_tests call no step touches the output directories or classifies
\* a frame while the execution phase lasts, and a step that does either is taken only
\* when every candidate was run (or found unreadable) and its result collected.
C13_PhaseBarrier ==
    [][ /\ pc = "exec" => (fs' = fs /\ classified' = classified)
        /\ ((pc # "idle" /\ fs' # fs) \/ (classified' # classified /\ classified' # {}))
                => AllCollected ]_vars

\* a frame is classified in a run in which a callback panicked and another returned
C13_Witness ==
    /\ pc = "classify"
    /\ classified # {}
    /\ \E x, y \in ran : x.did = "panicked" /\ y.did = "returned"

\* the path of the frame worker w is classifying
PathAt(w) == path_suffix(wk[w].candidate, Head(wk[w].rest).tag)

Progress ==
    LET q == SelectSeq(formatter, LAMBDA f : f.call = "handle_test_progress")
    IN  [i \in 1..Len(q) |-> q[i].result]

\* C15: in a run_tests call the first call of the formatter is handle_start and there
\* is no other handle_start; handle_test_progress was called with exactly the results
\* collected so far, each once, for a candidate that was run or found unreadable, and
\* once the execution phase has returned that is once per candidate; handle_complete
\* is called once, as the last call, when every result is classified and the report
\* built.
C15_FormatterOrder ==
    runs > 0 =>
        /\ Len(formatter) >= 1
        /\ \A i \in 1..Len(formatter) : formatter[i].call = "handle_start" <=> i = 1
        /\ Progress = frame_results
        /\ \A i \in 1..Len(Progress) : \E x \in ran : x.candidate = Progress[i].candidate
        /\ pc \in {"classify", "idle"} =>
            \A c \in Candidates :
                Cardinality({i \in 1..Len(Progress) : Progress[i].candidate = c}) = 1
        /\ \A i \in 1..Len(formatter) :
            formatter[i].call = "handle_complete" =>
                /\ i = Len(formatter)
                /\ i = Len(Progress) + 2
                /\ pc = "idle"
                /\ todo = {}
                /\ report # None
                /\ report[1].test_outputs = Flatten(test_results)
        /\ (pc = "idle" /\ runs > 0) => formatter[Len(formatter)].call = "handle_complete"

\* a run has returned: handle_start, a progress call for each of the two candidates
\* (one of them panicked), handle_complete
C15_Witness ==
    /\ pc = "idle"
    /\ Len(formatter) = 4
    /\ formatter[4].call = "handle_complete"
    /\ \E x \in ran : x.did = "panicked"

\* handle_test_start was called with candidate c among the first n calls of the formatter
StartedWithin(c, n) ==
    \E j \in 1..n :
        /\ formatter[j].call = "handle_test_start"
        /\ formatter[j].candidate = c

\* C16: for every candidate whose callback was invoked, handle_test_start was called
\* with it before, and for every candidate handle_test_start precedes the per-result
\* call of the formatter.
C16_TestStartFirst ==
    /\ \A x \in ran :
        x.did \in {"panicked", "returned"} => StartedWithin(x.candidate, Len(formatter))
    /\ \A i \in 1..Len(formatter) :
        formatter[i].call = "handle_test_progress" =>
            StartedWithin(formatter[i].result.candidate, i - 1)

\* C17: whenever run_in_custom_handler is not running, after it returned or after a
\* panic propagated out of it, the process-wide hook is the one that was in effect
\* when it was called.
C17_HookRestored ==
    pc # "exec" => panic_hook = hook

\* C18: two classified frames that differ in candidate id or in tag have different
\* paths below a generation directory.
C18_PathsDistinct ==
    \A e1, e2 \in classified :
        <<e1.candidate.rom_id, e1.frame.tag>> # <<e2.candidate.rom_id, e2.frame.tag>>
            => PathOf(e1) # PathOf(e2)

\* C19: once the configured timeout has passed during a run_tests call, the call
\* takes no further step: no worker goes on, no result is collected or classified,
\* nothing is written, the formatter is not called and run_tests does not return.
C19_StopsAtTimeout ==
    [][ timed_out =>
            UNCHANGED <<other, pc, tests, wk, frame_results, todo, test_results, fs, report,
                        formatter>> ]_vars

\* C20: no step of the classification phase creates, changes or deletes a file of
\* `old` or a snapshot, whatever the writes to `new`, `changed` and `failures` do.
C20_BaselineUntouched ==
    [][ pc = "classify" => (fs'.old.files = fs.old.files /\ snapshots' = snapshots) ]_vars

\* a frame that differs from its `old` file was classified and written to `new` and
\* `changed`, and `old` still holds the file it held before
C20_Witness ==
    \E e \in classified :
        /\ e.old # None
        /\ e.output.kind = "Changed"
        /\ HasFile(fs.new.files, PathOf(e))
        /\ HasFile(fs.changed.files, PathOf(e))
        /\ HasFile(fs.old.files, PathOf(e))
        /\ fs.old.files[PathOf(e)] = e.old[1]
        /\ fs.old.files[PathOf(e)] # fs.new.files[PathOf(e)]

\* C21: a step that constructs a runner leaves in `old` exactly what `new` held when
\* `new` existed, and no `old` at all when it did not; `new`, `changed` and `failures`
\* exist afterwards and are empty.
C21_SetupPostState ==
    [][ pools' # pools =>
            /\ fs'.old = IF fs.new.exists THEN [exists |-> TRUE, files |-> fs.new.files]
                                          ELSE NoDir
            /\ fs'.new = EmptyDir
            /\ fs'.changed = EmptyDir
            /\ fs'.failures = EmptyDir ]_vars

\* after the setup `old` holds two files, none of them in `new`, `changed` or `failures`
C21_Witness ==
    /\ runner.exists
    /\ HasFile(fs.old.files, "a.png")
    /\ HasFile(fs.old.files, "b/b_1.png")
    /\ fs.new = EmptyDir
    /\ fs.changed = EmptyDir
    /\ fs.failures = EmptyDir

\* the Err of a candidate whose ROM could not be read
UnreadableResult(c) == RunnerError(c, <<"Couldn't read ROM">>)

\* C22: for a candidate whose ROM could not be read the callback is not invoked in
\* this run, no worker stands at the callback or at latest_panic for it, its result is
\* the Err of the read alone (no panic message in it), and the formatter has been
\* called with that Err by the time it is collected.
C22_UnreadableFailsAtOnce ==
    \A x \in ran :
        x.did = "unreadable" =>
            /\ \A y \in ran : y.candidate = x.candidate => y = x
            /\ \A w \in Workers :
                /\ wk[w].pc \in {"run", "caught"} => wk[w].candidate # x.candidate
                /\ wk[w].pc = "report" =>
                    (wk[w].result.candidate = x.candidate
                        => wk[w].result = UnreadableResult(x.candidate))
            /\ \A i \in ResultsOf(x.candidate) :
                /\ frame_results[i] = UnreadableResult(x.candidate)
                /\ \E j \in 1..Len(Progress) : Progress[j] = frame_results[i]
            /\ (\A w \in Workers : wk[w].pc # "report" \/ wk[w].result.candidate # x.candidate)
                    => Cardinality(ResultsOf(x.candidate)) = 1

\* the Err of an unreadable candidate is collected and the formatter has seen it, on a
\* runner whose buffer holds the panic message of the other candidate
C22_Witness ==
    /\ PANIC_BUFFER # <<>>
    /\ \E x, y \in ran :
        /\ x.did = "unreadable"
        /\ y.did = "panicked"
        /\ \E i \in ResultsOf(x.candidate) : frame_results[i] = UnreadableResult(x.candidate)
        /\ \E j \in 1..Len(Progress) : Progress[j] = UnreadableResult(x.candidate)

\* C23: a persisted frame that differs from its (decodable) snapshot, the copy into
\* `failures` succeeding, is Failure, and is_new is true exactly when `old` held,
\* before the comparison, a file that decodes to the bytes of the snapshot; so it is
\* false when `old` holds no file for the frame or an undecodable one.
C23_FailedIsNew ==
    \A e \in classified :
        LET snapshot == SnapshotAt(PathOf(e))
        IN  ( /\ Persisted(e)
              /\ e.io.copy = "ok"
              /\ snapshot # None
              /\ snapshot[1].ok
              /\ snapshot[1].bytes # e.frame.frame ) =>
                /\ e.output.kind = "Failure"
                /\ e.output.is_new <=> Identical(e.old, snapshot[1].bytes)
                /\ e.old = None => ~e.output.is_new

\* a frame that differs from its snapshot with no file in `old`: Failure, is_new false
C23_Witness ==
    \E e \in classified :
        /\ SnapshotAt(PathOf(e)) # None
        /\ e.old = None
        /\ e.output.kind = "Failure"
        /\ ~e.output.is_new

\* the ThreadIds there can be
Threads == (1..MaxRuns) \X Workers

\* the callback of worker w panics in this step
Faults(w) == wk[w].pc = "run" /\ wk'[w].pc = "caught"

\* C24: a step in which a worker's callback panics appends the panic's message to
\* that worker's entry of the buffer and leaves every other entry as it is; no other
\* step changes the buffer, the call of latest_panic included; latest_panic gives
\* the calling worker the last message of its entry, and None exactly to a thread
\* that has no entry.
C24_BufferEntries ==
    [][ /\ \A t \in Threads : latest_panic(PANIC_BUFFER, t) = None <=> t \notin DOMAIN PANIC_BUFFER
        /\ \A w \in Workers :
            Faults(w) =>
                /\ DOMAIN PANIC_BUFFER' = DOMAIN PANIC_BUFFER \cup {ThreadId(w)}
                /\ PANIC_BUFFER'[ThreadId(w)] =
                        Append(IF ThreadId(w) \in DOMAIN PANIC_BUFFER
                                   THEN PANIC_BUFFER[ThreadId(w)] ELSE <<>>,
                               PanicMsg(wk[w].candidate))
                /\ \A u \in DOMAIN PANIC_BUFFER \ {ThreadId(w)} : PANIC_BUFFER'[u] = PANIC_BUFFER[u]
        /\ (\A w \in Workers : ~Faults(w)) => PANIC_BUFFER' = PANIC_BUFFER
        /\ \A w \in Workers :
            (wk[w].pc = "caught" /\ wk'[w].pc = "report") =>
                LET entry == PANIC_BUFFER[ThreadId(w)]
                IN  wk'[w].result.context = <<"Caught an emulator panic", entry[Len(entry)]>> ]_vars

\* a worker has the message of its second panic in hand, its entry holding both, and
\* another thread has an entry too
C24_Witness ==
    \E w \in Workers :
        /\ wk[w].pc = "report"
        /\ ~wk[w].result.ok
        /\ ThreadId(w) \in DOMAIN PANIC_BUFFER
        /\ Len(PANIC_BUFFER[ThreadId(w)]) = 2
        /\ wk[w].result.context = <<"Caught an emulator panic", PANIC_BUFFER[ThreadId(w)][2]>>
        /\ PANIC_BUFFER[ThreadId(w)][1] # PANIC_BUFFER[ThreadId(w)][2]
        /\ \E u \in DOMAIN PANIC_BUFFER : u # ThreadId(w)

\* C25: a frame whose buffer is shorter or longer than width * height * 4 bytes is
\* classified Error, and no file is written for it to `new`, `changed` or `failures`.
C25_WrongSizeIsError ==
    \A e \in classified :
        Len(e.frame.frame) # FrameBytes =>
            /\ e.output.kind = "Error"
            /\ ~HasFile(fs.new.files, PathOf(e))
            /\ ~HasFile(fs.changed.files, PathOf(e))
            /\ ~HasFile(fs.failures.files, PathOf(e))

\* C26: the frames of one candidate are classified independently: every frame of the
\* sequence gets its outcome whatever the outcomes of the others (an Error included),
\* and the outcome of a frame is the one the frame gets when classified alone against
\* its own `old` file and snapshot.
C26_FramesIndependent ==
    /\ \A e \in classified :
         LET p == PathOf(e)
             alone == [old |-> DirWith(p, IF HasFile(fs.old.files, p)
                                             THEN Some(fs.old.files[p]) ELSE None),
                       new |-> EmptyDir, changed |-> EmptyDir, failures |-> EmptyDir]
         IN  e.output =
                FrameToTestOutput(e.candidate,
                                  Lambda(alone, snapshots, e.candidate, e.frame, e.io)).output
    /\ report # None =>
         \A i \in 1..Len(frame_results) :
            frame_results[i].ok =>
                \A n \in 1..Len(frame_results[i].frame_output) :
                    \E e \in classified :
                        /\ e.candidate = frame_results[i].candidate
                        /\ e.n = n
                        /\ e.frame = frame_results[i].frame_output[n]

C26_Witness ==
    /\ report # None
    /\ \E e1 \in classified, e2 \in classified :
        /\ e1.candidate = e2.candidate
        /\ e1.n = 1 /\ e1.output.kind = "Error"
        /\ e2.n = 2 /\ e2.output.kind = "Passed"

\* C27: within one candidate the frames are classified one after the other in the
\* order the run callback produced them, and in the report's full list the candidate's
\* outputs are contiguous and in that same order.
C27_FrameOrder ==
    [][ /\ \A e \in classified' \ classified :
            /\ e.n = Cardinality({x \in classified : x.candidate = e.candidate}) + 1
            /\ \E i \in ResultsOf(e.candidate) :
                    /\ frame_results[i].ok
                    /\ e.frame = frame_results[i].frame_output[e.n]
        /\ report' # None =>
            LET outs == report'[1].test_outputs
            IN  /\ \A i \in 1..Len(outs), j \in 1..Len(outs), k \in 1..Len(outs) :
                        (i < j /\ j < k /\ outs[i].candidate = outs[k].candidate)
                            => outs[j].candidate = outs[i].candidate
                /\ \A e \in classified' :
                        LET own == SelectSeq(outs, LAMBDA o : o.candidate = e.candidate)
                        IN  /\ e.n <= Len(own)
                            /\ own[e.n].output = e.output
      ]_vars

\* frames of different candidates in classification at once: one worker is in the
\* lambda for the second frame of the sequence test, the first being classified, while
\* the other worker is in the lambda for the frame of the other candidate
C27_Witness ==
    \E a, b \in Workers :
        /\ wk[a].pc \in {"save", "compare"}
        /\ wk[a].n = 2
        /\ \E e \in classified : e.candidate = wk[a].candidate /\ e.n = 1
        /\ wk[b].pc \in {"save", "compare"}
        /\ wk[b].candidate # wk[a].candidate

\* C28: every candidate given to run_tests has at least one TestOutput in the final
\* report, a candidate whose run callback returned an empty frame list included.
C28_EveryCandidateReported ==
    report # None =>
        \A i \in 1..Len(frame_results) : Len(OutputsFor(frame_results[i].candidate)) >= 1

\* C29: after a run completes, a file exists under `changed` for a frame's path iff the
\* frame was classified Changed in this run, and under `failures` iff it was classified
\* Failed in this run -- over any sequence of runs, a second run_tests call on the same
\* runner included.
C29_ChangedAndFailuresCurrent ==
    (pc = "idle" /\ report # None /\ pools <= runs) =>
        \A p \in (DOMAIN fs.changed.files) \cup (DOMAIN fs.failures.files)
                    \cup {PathOf(e) : e \in classified} :
            /\ HasFile(fs.changed.files, p)
                    <=> \E e \in classified : PathOf(e) = p /\ e.output.kind = "Changed"
            /\ HasFile(fs.failures.files, p)
                    <=> \E e \in classified : PathOf(e) = p /\ e.output.kind = "Failure"

\* C30: when two run_in_custom_handler scopes overlap, the recording handler is in
\* effect for as long as either scope is active, and once both have ended the handler
\* in effect is the one installed before the first scope began.
C30_OverlappingScopes ==
    /\ (pc = "exec" \/ other.pc = "inside") => panic_hook = "custom"
    /\ (pc \in {"idle", "classify"} /\ other.pc \in {"outside", "returned"})
            => panic_hook = "default"

\* the number of handle_complete calls the formatter got in this run_tests call
CompleteCalls ==
    Cardinality({i \in 1..Len(formatter) : formatter[i].call = "handle_complete"})

\* run_tests has returned after handle_complete, called once with the report made of
\* the results of this call
Returned ==
    /\ pc = "idle"
    /\ CompleteCalls = 1
    /\ formatter[Len(formatter)].call = "handle_complete"
    /\ report = Some(TestReportNew(Flatten(test_results)))
    /\ Len(frame_results) = formatter[1].test_count
    /\ tests = {}

\* C31: once handle_start has succeeded, and with every callback invocation returning
\* or panicking, run_tests eventually calls handle_complete exactly once with the
\* report of this run and returns, whatever the number of candidates (zero included)
\* and of panicking candidates.
C31_RunTerminates ==
    /\ [](CompleteCalls <= 1)
    /\ (pc = "exec") ~> Returned

\* a run over both candidates, both callbacks panicked, has returned
C31_Witness ==
    /\ Returned
    /\ formatter[1].test_count = 2
    /\ \A c \in Candidates : \E x \in ran : x.candidate = c /\ x.did = "panicked"

====
